---- MODULE Spec2Model ----
(***************************************************************************)
(* Limit-order matching engines of the low-latency-orderbook repository.   *)
(*                                                                         *)
(* The repository builds two independent programs around two matchers:     *)
(*   "core" : orderBook_core.cpp  (Orderbook::AddOrder / CancelOrder,      *)
(*            insert the order, then cross best bid with best ask)         *)
(*   "sim"  : orderBook.cpp       (Orderbook::add, cross the incoming      *)
(*            order first, then rest a GTC remainder)                      *)
(* and, around the second matcher, the multi-symbol simulator:             *)
(*   "market"   : main of orderBook.cpp with its display, input and feed   *)
(*                threads working on the Markets of a SymbolManager        *)
(*   "registry" : a SymbolManager alone, its selector stored and resolved  *)
(* Two clients of the engines complete the model:                          *)
(*   "scenario" : a functional test making a fixed list of calls on the    *)
(*                core engine                                              *)
(*   "both"     : the same submissions made to one book of each engine     *)
(* The variable program says which of them is running; each action         *)
(* belongs to one of them.                                                 *)
(***************************************************************************)
EXTENDS Integers, Sequences, FiniteSets, TLC

VARIABLES program,   \* which of the programs this behaviour is
          bids,      \* core Impl::bids   : price -> FIFO of Order (keys = levels present)
          asks,      \* core Impl::asks
          lookup,    \* core Impl::lookup : id -> the order it points to (side, px)
          bids_,     \* sim Orderbook::bids_
          asks_,     \* sim Orderbook::asks_
          call,      \* the call that has just returned to the client: its
                     \* arguments, the book it found and what it returned
          runFlag,   \* main's atomic<bool> runFlag
          activeIdx, \* SymbolManager::activeIdx
          markets,   \* SymbolManager::markets : symbol -> Market
          pc,        \* thread -> the statement it is at
          loc,       \* thread -> its local variables
          fuel       \* feed orders and key presses the threads may still start

marketVars == <<runFlag, activeIdx, markets, pc, loc, fuel>>
vars == <<program, bids, asks, lookup, bids_, asks_, call,
          runFlag, activeIdx, markets, pc, loc, fuel>>

(***************************************************************************)
(* Bounds of the model.                                                    *)
(***************************************************************************)
MaxId      == 3      \* order ids 1..MaxId
NumPx      == 2      \* prices SeedBasePx-1 .. SeedBasePx+NumPx-2
MaxQty     == 2      \* quantities 0..MaxQty
MaxResting == 2      \* submissions leave at most this many orders resting
SeedLevels == 1      \* seedAsks(levels, ...) of the simulator's markets
SeedQty    == 2      \* seedAsks(..., qty)
LadderQty  == 1      \* seedAsks(15, qty) of the simulator's SymbolManager
MaxFeed    == 5      \* feed orders started in one run of the simulator
MaxKeys    == 1      \* keys other than Q pressed in one run
MaxSel     == 26     \* selector values -MaxSel..MaxSel stored in a registry
LiveFeed   == 2      \* MaxFeed of the runs checked under a fair scheduler
FairFeed   == 1      \* MaxFeed of the runs checked under a scheduler fair to waiters

(***************************************************************************)
(* Program constants.                                                      *)
(***************************************************************************)
SeedBasePx == 100         \* seedAsks: px = 100 + i
SeedBaseId == 100000      \* seedAsks: id = 100000 + i
MAX_TAPE   == 12          \* static const size_t MAX_TAPE
LadderLevels == 15        \* SymbolManager(): m->book.seedAsks(15, 20)
UserIdBase == 900000      \* inputLoop: static uint64_t userId

Ids    == 1..MaxId
Prices == (SeedBasePx - 1)..(SeedBasePx + NumPx - 2)
Qtys   == 0..MaxQty
Sides  == {"Buy", "Sell"}
CoreTypes == {"GoodTillCancel", "FillAndKill"}
SimTypes  == {"GTC", "IOC"}

(***************************************************************************)
(* std::map / std::list helpers.                                           *)
(***************************************************************************)
SetMax(S) == CHOOSE x \in S : \A y \in S : y <= x
SetMin(S) == CHOOSE x \in S : \A y \in S : x <= y

EmptyMap == [p \in {} |-> <<>>]

\* Mutant of MapErase: the entry is left in the map.
MapEraseNothing(m, k) == m

\* map::erase(key)
MapErase(m, k) == [p \in DOMAIN m \ {k} |-> m[p]]

\* map[px].push_back(o): operator[] creates the level when absent
PushBack(m, px, o) ==
    [p \in DOMAIN m \cup {px} |->
        IF p = px THEN (IF px \in DOMAIN m THEN Append(m[px], o) ELSE <<o>>)
                  ELSE m[p]]

\* Mutant of ListErase: pop_front() for erase(iterator).
ListEraseFront(q, id) == Tail(q)

\* list::erase(iterator): the iterator stored in lookup designates the node
\* holding the order with that id
ListErase(q, id) == SelectSeq(q, LAMBDA x : x.id # id)

\* Mutant of BestAskPx: the asks keyed with std::greater, like the bids.
WorstAskPx(m) == SetMax(DOMAIN m)

\* begin() of map<Price, Q, greater<Price>> and of map<Price, Q, less<Price>>
BestBidPx(m) == SetMax(DOMAIN m)
BestAskPx(m) == SetMin(DOMAIN m)

RECURSIVE SumLens(_, _)
SumLens(m, S) == IF S = {} THEN 0
                 ELSE LET p == CHOOSE x \in S : TRUE
                      IN Len(m[p]) + SumLens(m, S \ {p})
Count(m) == SumLens(m, DOMAIN m)

(***************************************************************************)
(* Core engine: orderBook_core.cpp                                         *)
(***************************************************************************)
\* Orderbook::MakeOrder: new Order{t,id,s,px,qty,qty}.  traded is a history
\* field: the sum of the quantities of the trades made against this order.
MakeOrder(t, id, s, px, qty) ==
    [type |-> t, id |-> id, side |-> s, px |-> px,
     initial |-> qty, remaining |-> qty, traded |-> 0]

\* Order::filled
filled(o) == o.remaining = 0

\* Order::fill throws logic_error("overfill") when q > remaining
overfill(o, q) == q > o.remaining

\* Order::fill, the non-throwing path (q <= remaining: no uint32 wrap)
fill(o, q) == [o EXCEPT !.remaining = @ - q, !.traded = @ + q]

\* Mutant of Crossed: the loop also stops at equal prices (`<=` for `<`).
CrossedStrictly(bidPx, askPx) == bidPx > askPx

\* match(): `if (bidPx < askPx) break;`
Crossed(bidPx, askPx) == ~(bidPx < askPx)

\* Mutant of MatchQty: std::max for std::min.
LargerQty(a, b) == IF a < b THEN b ELSE a

\* match(): Quantity q = std::min(bid->remaining, ask->remaining)
MatchQty(a, b) == IF a < b THEN a ELSE b

\* Mutant of front: back() for front().
back(q) == Len(q)

\* match(): bidQ.front() / askQ.front(): position of the order taken
front(q) == 1

\* match(): the Trade pushed for one match
MakeTrade(bid, ask, q) ==
    [bid |-> [orderId |-> bid.id, price |-> bid.px, qty |-> q],
     ask |-> [orderId |-> ask.id, price |-> ask.px, qty |-> q]]

\* trades.push_back(t)
push_back(trades, t) == Append(trades, t)

\* What one iteration of a matching loop saw just before it traded.
Step(bs, as, bid, ask, bidRem, askRem, q) ==
    [bids |-> bs, asks |-> as,
     bidId |-> bid.id, askId |-> ask.id, bidPx |-> bid.px, askPx |-> ask.px,
     bidRem |-> bidRem, askRem |-> askRem, q |-> q]

\* Orderbook::Impl::match.  m carries the book, the trades so far, the object
\* the caller's pointer o designates (inc) and whether fill() has thrown.
RECURSIVE match(_)
match(m) ==
    IF m.fault \/ DOMAIN m.bids = {} \/ DOMAIN m.asks = {} THEN m
    ELSE
    LET bidPx == BestBidPx(m.bids)
        askPx == BestAskPx(m.asks)
    IN  IF ~Crossed(bidPx, askPx) THEN m
        ELSE
        LET bidQ == m.bids[bidPx]
            askQ == m.asks[askPx]
            bi   == front(bidQ)
            ai   == front(askQ)
            bid  == bidQ[bi]
            ask  == askQ[ai]
            q    == MatchQty(bid.remaining, ask.remaining)
        IN  IF overfill(bid, q) THEN [m EXCEPT !.fault = TRUE]
            ELSE
            LET bid2  == fill(bid, q)
                bidQ1 == [bidQ EXCEPT ![bi] = bid2]
            IN  IF overfill(ask, q)
                THEN [m EXCEPT !.fault = TRUE, !.bids[bidPx] = bidQ1]
                ELSE
                LET ask2  == fill(ask, q)
                    askQ1 == [askQ EXCEPT ![ai] = ask2]
                    bidQ2 == IF filled(bid2) THEN Tail(bidQ1) ELSE bidQ1
                    askQ2 == IF filled(ask2) THEN Tail(askQ1) ELSE askQ1
                    lk1   == IF filled(bid2) THEN MapErase(m.lookup, bid2.id)
                                             ELSE m.lookup
                    lk2   == IF filled(ask2) THEN MapErase(lk1, ask2.id) ELSE lk1
                    bids2 == IF bidQ2 = <<>> THEN MapErase(m.bids, bidPx)
                             ELSE [m.bids EXCEPT ![bidPx] = bidQ2]
                    asks2 == IF askQ2 = <<>> THEN MapErase(m.asks, askPx)
                             ELSE [m.asks EXCEPT ![askPx] = askQ2]
                    inc2  == IF bid2.id = m.inc.id THEN bid2
                             ELSE IF ask2.id = m.inc.id THEN ask2 ELSE m.inc
                IN  match([bids   |-> bids2,
                           asks   |-> asks2,
                           lookup |-> lk2,
                           trades |-> push_back(m.trades, MakeTrade(bid2, ask2, q)),
                           steps  |-> Append(m.steps,
                                        Step(m.bids, m.asks, bid, ask,
                                             bid.remaining, ask.remaining, q)),
                           inc    |-> inc2,
                           fault  |-> FALSE])

\* Mutant of find: an id that is absent designates the first entry (begin()
\* for end()).
findOrBegin(lk, id) ==
    IF id \in DOMAIN lk THEN {id}
    ELSE IF DOMAIN lk = {} THEN {} ELSE {SetMin(DOMAIN lk)}

\* lookup.find(id): the entry found, as the set of its key; {} stands for end()
find(lk, id) == {id} \cap DOMAIN lk

\* Orderbook::CancelOrder on the book b = [bids, asks, lookup]
CancelOrder(b, id) ==
    LET it == find(b.lookup, id)
    IN  IF it = {} THEN b
        ELSE
        LET k == CHOOSE x \in it : TRUE
            o == b.lookup[k]
        IN  IF o.side = "Buy"
            THEN LET q == IF o.px \in DOMAIN b.bids THEN ListErase(b.bids[o.px], k)
                          ELSE <<>>
                 IN [bids   |-> IF o.px \notin DOMAIN b.bids THEN b.bids
                                ELSE IF q = <<>> THEN MapErase(b.bids, o.px)
                                ELSE [b.bids EXCEPT ![o.px] = q],
                     asks   |-> b.asks,
                     lookup |-> MapErase(b.lookup, k)]
            ELSE LET q == IF o.px \in DOMAIN b.asks THEN ListErase(b.asks[o.px], k)
                          ELSE <<>>
                 IN [bids   |-> b.bids,
                     asks   |-> IF o.px \notin DOMAIN b.asks THEN b.asks
                                ELSE IF q = <<>> THEN MapErase(b.asks, o.px)
                                ELSE [b.asks EXCEPT ![o.px] = q],
                     lookup |-> MapErase(b.lookup, k)]

\* Mutant of emplace: the index entry is not made.
emplaceNothing(lk, o) == lk

\* lookup.emplace(o->id, {o, it})
emplace(lk, o) ==
    [i \in DOMAIN lk \cup {o.id} |->
        IF i \in DOMAIN lk THEN lk[i] ELSE [side |-> o.side, px |-> o.px]]

\* `o->type == OrderType::FillAndKill && o->remaining > 0`
KillRemainder(o) == o.type = "FillAndKill" /\ o.remaining > 0

\* Orderbook::AddOrder on the book b = [bids, asks, lookup]; the result holds
\* the book afterwards, the returned trades and the steps of the matcher.
AddOrder(b, o) ==
    IF o.id \in DOMAIN b.lookup
    THEN [bids |-> b.bids, asks |-> b.asks, lookup |-> b.lookup,
          trades |-> <<>>, steps |-> <<>>, inc |-> o, fault |-> FALSE, dup |-> TRUE]
    ELSE
    LET m == match([bids   |-> IF o.side = "Buy" THEN PushBack(b.bids, o.px, o)
                               ELSE b.bids,
                    asks   |-> IF o.side = "Buy" THEN b.asks
                               ELSE PushBack(b.asks, o.px, o),
                    lookup |-> emplace(b.lookup, o),
                    trades |-> <<>>, steps |-> <<>>, inc |-> o, fault |-> FALSE])
        mb == [bids |-> m.bids, asks |-> m.asks, lookup |-> m.lookup]
        fb == IF ~m.fault /\ KillRemainder(m.inc) THEN CancelOrder(mb, o.id) ELSE mb
    IN  [bids |-> fb.bids, asks |-> fb.asks, lookup |-> fb.lookup,
         trades |-> m.trades, steps |-> m.steps, inc |-> m.inc,
         fault |-> m.fault, dup |-> FALSE]

\* Orderbook::size
size(lk) == Cardinality(DOMAIN lk)

(***************************************************************************)
(* Simulator engine: orderBook.cpp                                         *)
(***************************************************************************)
\* The Order aggregate {id, side, type, px, rem} passed to add.  initial and
\* traded are history fields: the quantity the order was submitted with and
\* the sum of the quantities of the trades made against it.
SimOrder(id, s, t, px, qty) ==
    [id |-> id, side |-> s, type |-> t, px |-> px, rem |-> qty,
     initial |-> qty, traded |-> 0]

\* add(): the lambda matchable
matchable(o, bs, as) ==
    IF o.side = "Buy" THEN DOMAIN as # {} /\ o.px >= BestAskPx(as)
                      ELSE DOMAIN bs # {} /\ o.px <= BestBidPx(bs)

\* add(): the lambda enqueue, on the book b = [bids, asks]
enqueue(o, b) ==
    IF o.side = "Buy" THEN [bids |-> PushBack(b.bids, o.px, o), asks |-> b.asks]
                      ELSE [bids |-> b.bids, asks |-> PushBack(b.asks, o.px, o)]

\* Mutant of BuyLoop: the limit-price test dropped.
BuyLoopNoLimit(o, as) == o.rem # 0 /\ DOMAIN as # {}

\* add(): the conditions of the two while loops
BuyLoop(o, as)  == o.rem # 0 /\ DOMAIN as # {} /\ o.px >= BestAskPx(as)
SellLoop(o, bs) == o.rem # 0 /\ DOMAIN bs # {} /\ o.px <= BestBidPx(bs)

\* add(): Qty q = min(o.rem, top.rem)
SimQty(a, b) == IF a < b THEN a ELSE b

\* add(): `o.rem -= q;` / `top.rem -= q;` (q is the smaller rem: no uint32 wrap)
take(o, q) == [o EXCEPT !.rem = @ - q, !.traded = @ + q]

\* add(): the TradeEvent pushed (ts_ns, the clock reading, is left out)
TradeEvent(bidId, askId, px, q, aggressor) ==
    [bidId |-> bidId, askId |-> askId, px |-> px, qty |-> q, aggressor |-> aggressor]

\* Mutant of AfterFill: `if (q.empty()) side.erase(px)` dropped.
AfterFillKeepLevel(side, px, top2) ==
    IF top2.rem = 0 THEN [side EXCEPT ![px] = Tail(side[px])]
    ELSE [side EXCEPT ![px] = <<top2>> \o Tail(side[px])]

\* add(): `if (top.rem == 0) { q.pop_front(); if (q.empty()) side.erase(px); }`
AfterFill(side, px, top2) ==
    LET lvl == side[px]
    IN  IF top2.rem = 0
        THEN (IF Tail(lvl) = <<>> THEN MapErase(side, px)
              ELSE [side EXCEPT ![px] = Tail(lvl)])
        ELSE [side EXCEPT ![px] = <<top2>> \o Tail(lvl)]

\* add(): the two crossing loops.  head = [bids, asks, o, out, steps] is the
\* state at the head of the loop; m is that state, evaluated once.
RECURSIVE cross(_)
cross(head) ==
    CHOOSE r \in {
    IF m.o.side = "Buy"
    THEN IF ~BuyLoop(m.o, m.asks) THEN m
         ELSE
         LET apx  == BestAskPx(m.asks)
             top  == m.asks[apx][1]
             q    == SimQty(m.o.rem, top.rem)
             o2   == take(m.o, q)
             top2 == take(top, q)
         IN  cross([bids  |-> m.bids,
                    asks  |-> AfterFill(m.asks, apx, top2),
                    o     |-> o2,
                    out   |-> push_back(m.out,
                                 TradeEvent(m.o.id, top.id, apx, q, "Buy")),
                    steps |-> Append(m.steps,
                                 Step(m.bids, m.asks, m.o, top, m.o.rem, top.rem, q))])
    ELSE IF ~SellLoop(m.o, m.bids) THEN m
         ELSE
         LET bpx  == BestBidPx(m.bids)
             top  == m.bids[bpx][1]
             q    == SimQty(m.o.rem, top.rem)
             o2   == take(m.o, q)
             top2 == take(top, q)
         IN  cross([bids  |-> AfterFill(m.bids, bpx, top2),
                    asks  |-> m.asks,
                    o     |-> o2,
                    out   |-> push_back(m.out,
                                 TradeEvent(top.id, m.o.id, bpx, q, "Sell")),
                    steps |-> Append(m.steps,
                                 Step(m.bids, m.asks, top, m.o, top.rem, m.o.rem, q))])
    : m \in {head}} : TRUE

\* Mutant of Rests: the remainder rests whatever the order's type.
RestsAnyType(o) == o.rem # 0

\* `if (o.rem && o.type == OrderType::GTC) enqueue();`
Rests(o) == o.rem # 0 /\ o.type = "GTC"

\* Orderbook::add on the book b = [bids, asks]
add(b, o) ==
    IF o.type = "IOC" /\ ~matchable(o, b.bids, b.asks)
    THEN [bids |-> b.bids, asks |-> b.asks, out |-> <<>>, steps |-> <<>>, o |-> o]
    ELSE
    LET m  == cross([bids |-> b.bids, asks |-> b.asks, o |-> o,
                     out |-> <<>>, steps |-> <<>>])
        mb == [bids |-> m.bids, asks |-> m.asks]
        fb == IF Rests(m.o) THEN enqueue(m.o, mb) ELSE mb
    IN  [bids |-> fb.bids, asks |-> fb.asks, out |-> m.out, steps |-> m.steps,
         o |-> m.o]

\* Orderbook::seedAsks(levels, qty): iterations i .. levels-1 of its loop
RECURSIVE seedAsks(_, _, _, _)
seedAsks(as, i, levels, qty) ==
    IF i >= levels THEN as
    ELSE seedAsks(PushBack(as, SeedBasePx + i,
                           SimOrder(SeedBaseId + i, "Sell", "GTC", SeedBasePx + i, qty)),
                  i + 1, levels, qty)

\* Orderbook::restingOrders
restingOrders(bs, as) == Count(bs) + Count(as)

\* Orderbook::bestBid / bestAsk: 0 stands for an empty side
bestBid(bs) == IF DOMAIN bs = {} THEN 0 ELSE BestBidPx(bs)
bestAsk(as) == IF DOMAIN as = {} THEN 0 ELSE BestAskPx(as)

(***************************************************************************)
(* Simulator: Market, SymbolManager and the thread bodies of orderBook.cpp *)
(***************************************************************************)
\* SymbolManager::symbols
symbols == <<"AAPL", "MSFT", "BTCUSD">>

\* main: the threads it starts, and the seedSkew it gives each feed thread
sims == <<"sims0", "sims1", "sims2">>
seedSkew == <<0, 3, 8>>
Workers == {"tDisp", "tIn"} \cup {sims[i] : i \in 1..Len(sims)}
Threads == Workers \cup {"main"}

\* Market{}: a default book, an empty tape, tradeCount 0, an unlocked mutex
\* (m holds the name of the thread that owns the mutex, "" when unlocked),
\* then SymbolManager(): m->book.seedAsks(15, qty).  returned is a history
\* field: every trade book.add has returned so far, oldest first.
Market ==
    [book |-> [bids |-> EmptyMap,
               asks |-> seedAsks(EmptyMap, 0, LadderLevels, LadderQty)],
     tape |-> <<>>, tradeCount |-> 0, m |-> "", returned |-> <<>>]

\* SymbolManager(): markets.emplace(s, ...) for each symbol
SymbolManager == [sym \in {symbols[i] : i \in 1..Len(symbols)} |-> Market]

min(a, b) == IF b < a THEN b ELSE a
max(a, b) == IF a < b THEN b ELSE a

\* Mutant of clamp: `max(0, ...)` dropped.
clampTop(idx, n) == min(idx, n - 1)

\* activeSymbol(): idx = max(0, min(idx, (int)symbols.size()-1))
clamp(idx, n) == max(0, min(idx, n - 1))

\* symbols[(size_t)idx]: vector::operator[] checks nothing; an index outside
\* the vector is undefined behaviour, here the value NoSymbol
NoSymbol == "?"
at(v, i) == IF i \in 0..(Len(v) - 1) THEN v[i + 1] ELSE NoSymbol

\* SymbolManager::activeSymbol
activeSymbol(idx) == at(symbols, clamp(idx, Len(symbols)))

\* Mutant of push: push_back and pop_front for push_front and pop_back.
pushBack(tape, t) ==
    IF Len(tape) + 1 > MAX_TAPE THEN Tail(Append(tape, t)) ELSE Append(tape, t)

\* Mutant of push: `if (mk.tape.size() > MAX_TAPE) mk.tape.pop_back();` dropped.
pushKeepAll(tape, t) == <<t>> \o tape

\* addTradesToTapeLocked: one iteration, push_front then pop_back past MAX_TAPE
push(tape, t) ==
    LET pushed == <<t>> \o tape
    IN  IF Len(pushed) > MAX_TAPE THEN SubSeq(pushed, 1, Len(pushed) - 1)
        ELSE pushed

\* addTradesToTapeLocked(mk, trades)
RECURSIVE addTradesToTapeLocked(_, _)
addTradesToTapeLocked(tape, trades) ==
    IF trades = <<>> THEN tape
    ELSE addTradesToTapeLocked(push(tape, Head(trades)), Tail(trades))

\* inputLoop: `for (auto& t : trades) t.aggressor = side;`
setAggressor(trades, side) ==
    [i \in 1..Len(trades) |-> [trades[i] EXCEPT !.aggressor = side]]

\* marketSimLoop: Price px = (Price)(100 + (id % 30) + seedSkew)
feedPx(id, skew) == 100 + (id % 30) + skew

\* Mutant of unlocked: the mutex excludes nobody.
unlockedAlways(mk) == TRUE

\* lock_guard<mutex> g(mk.m) returns once the mutex is unlocked
unlocked(mk) == mk.m = ""

\* Mutant of unlock: the lock_guard's destructor leaves the mutex owned.
unlockKeep(owner) == owner

\* ~lock_guard(): m.unlock(), on the owner recorded for the mutex
unlock(owner) == ""

\* Mutant of running: the loops never see the flag cleared.
runningAlways(flag) == TRUE

\* `while (runFlag)`
running(flag) == flag

(***************************************************************************)
(* State machine.  A client makes one call at a time on the book of the    *)
(* running program; call holds the call that has just returned until the   *)
(* client has finished with what it returned.                              *)
(***************************************************************************)
\* The book of each engine, as its operations take it.
CoreBook == [bids |-> bids, asks |-> asks, lookup |-> lookup]
SimBook  == [bids |-> bids_, asks |-> asks_, lookup |-> EmptyMap]

NoOrder == [id |-> 0, side |-> "Buy", px |-> 0]

NoCall == [op |-> "none", o |-> NoOrder, tif |-> "GTC", qty |-> 0,
           dup |-> FALSE, fault |-> FALSE, trades |-> <<>>, steps |-> <<>>,
           inc |-> NoOrder,
           pre |-> [bids |-> EmptyMap, asks |-> EmptyMap, lookup |-> EmptyMap]]

\* The locals of each thread at the head of its loop: marketSimLoop's sym,
\* seedSkew, id and flip, inputLoop's userId (id), main's loop index (id).
\* s, ch and trades are the locals of one iteration.
Locals ==
    [t \in Threads |->
        LET i == IF \E k \in 1..Len(sims) : sims[k] = t
                 THEN CHOOSE k \in 1..Len(sims) : sims[k] = t ELSE 1
        IN  [sym    |-> symbols[i],
             skew   |-> IF t \in Workers \ {"tDisp", "tIn"} THEN seedSkew[i] ELSE 0,
             id     |-> IF t = "tIn" THEN UserIdBase
                        ELSE IF t \in {"tDisp", "main"} THEN 0 ELSE 1,
             flip   |-> IF t \in Workers \ {"tDisp", "tIn"}
                        THEN (seedSkew[i] % 2) # 0 ELSE FALSE,
             s      |-> "Buy",
             ch     |-> "",
             trades |-> <<>>]]

\* main has started its threads and waits in tIn.join()
Started == [t \in Threads |-> IF t = "main" THEN "joinIn" ELSE "loop"]

\* core    : `Orderbook ob;` (Impl default-constructed).
\* sim     : one Orderbook of orderBook.cpp with a seeded ask ladder.
\* market  : main(): `SymbolManager sm; atomic<bool> runFlag{true};` and the
\*           threads started.
\* registry: `SymbolManager sm;`
\* scenario: `Orderbook ob;` and a test about to make its first call.
\* both    : one empty Orderbook of each engine and a client that has used
\*           no order id yet.
Boot(programs, feed) ==
    /\ program \in programs
    /\ bids = EmptyMap
    /\ asks = EmptyMap
    /\ lookup = EmptyMap
    /\ bids_ = EmptyMap
    /\ asks_ = IF program = "sim" THEN seedAsks(EmptyMap, 0, SeedLevels, SeedQty)
               ELSE EmptyMap
    /\ call = NoCall
    /\ runFlag = TRUE
    /\ activeIdx = 0
    /\ markets = IF program \in {"market", "registry"} THEN SymbolManager ELSE <<>>
    /\ pc = IF program = "market" THEN Started
            ELSE IF program = "scenario" THEN [test |-> 1] ELSE <<>>
    /\ loc = IF program = "market" THEN Locals
             ELSE IF program = "both" THEN [test |-> [used |-> {}]] ELSE <<>>
    /\ fuel = IF program = "market" THEN [feed |-> feed, keys |-> MaxKeys]
              ELSE [feed |-> 0, keys |-> 0]

Init == Boot({"core", "sim", "market", "registry", "scenario", "both"}, MaxFeed)

\* ob.AddOrder(ob.MakeOrder(t, id, s, px, qty))
CallAddOrder(t, id, s, px, qty) ==
    /\ program = "core"
    /\ call.op = "none"
    /\ \E o \in {MakeOrder(t, id, s, px, qty)} : \E r \in {AddOrder(CoreBook, o)} :
           /\ size(r.lookup) <= MaxResting
           /\ bids' = r.bids
           /\ asks' = r.asks
           /\ lookup' = r.lookup
           /\ call' = [op |-> "AddOrder", o |-> o,
                       tif |-> IF t = "FillAndKill" THEN "IOC" ELSE "GTC",
                       qty |-> qty, dup |-> r.dup, fault |-> r.fault,
                       trades |-> r.trades, steps |-> r.steps, inc |-> r.inc,
                       pre |-> CoreBook]
    /\ UNCHANGED <<program, bids_, asks_>>
    /\ UNCHANGED marketVars

\* ob.CancelOrder(id)
CallCancelOrder(id) ==
    /\ program = "core"
    /\ call.op = "none"
    /\ \E r \in {CancelOrder(CoreBook, id)} :
           /\ bids' = r.bids
           /\ asks' = r.asks
           /\ lookup' = r.lookup
           /\ call' = [NoCall EXCEPT !.op = "CancelOrder", !.o.id = id,
                                     !.pre = CoreBook]
    /\ UNCHANGED <<program, bids_, asks_>>
    /\ UNCHANGED marketVars

\* runBasicTests, "Add and cancel": `auto* o3 = ob.MakeOrder(GoodTillCancel,
\* id, s, px, qty); ob.AddOrder(o3); ob.CancelOrder(id);`.  mid is the book
\* between the two calls; a throwing AddOrder leaves the function.
CallAddThenCancel(id, s, px, qty) ==
    /\ program = "core"
    /\ call.op = "none"
    /\ \E o \in {MakeOrder("GoodTillCancel", id, s, px, qty)} :
       \E r \in {AddOrder(CoreBook, o)} :
       \E mid \in {[bids |-> r.bids, asks |-> r.asks, lookup |-> r.lookup]} :
       \E c \in {IF r.fault THEN mid ELSE CancelOrder(mid, id)} :
           /\ bids' = c.bids
           /\ asks' = c.asks
           /\ lookup' = c.lookup
           /\ call' = [op |-> "AddCancel", o |-> o, tif |-> "GTC",
                       qty |-> qty, dup |-> r.dup, fault |-> r.fault,
                       trades |-> r.trades, steps |-> r.steps, inc |-> r.inc,
                       pre |-> CoreBook, mid |-> mid]
    /\ UNCHANGED <<program, bids_, asks_>>
    /\ UNCHANGED marketVars

\* mk.book.add({id, s, t, px, qty})
CallAdd(id, s, t, px, qty) ==
    /\ program = "sim"
    /\ call.op = "none"
    /\ \E o \in {SimOrder(id, s, t, px, qty)} : \E r \in {add(SimBook, o)} :
           /\ restingOrders(r.bids, r.asks) <= MaxResting
           /\ bids_' = r.bids
           /\ asks_' = r.asks
           /\ call' = [op |-> "add", o |-> o, tif |-> t, qty |-> qty,
                       dup |-> FALSE, fault |-> FALSE,
                       trades |-> r.out, steps |-> r.steps, inc |-> r.o,
                       pre |-> SimBook]
    /\ UNCHANGED <<program, bids, asks, lookup>>
    /\ UNCHANGED marketVars

\* The client is done with the returned trades (the vector is destroyed).
Return ==
    /\ call.op # "none"
    /\ call' = NoCall
    /\ UNCHANGED <<program, bids, asks, lookup, bids_, asks_>>
    /\ UNCHANGED marketVars

(***************************************************************************)
(* The two engines side by side: a client submits each order to a core     *)
(* Orderbook (AddOrder) and to a simulator Orderbook (add), both empty at  *)
(* first, with an id it has not used before and a quantity of at least 1.  *)
(***************************************************************************)
\* OrderType of orderBook_core.hpp for an OrderType of orderBook.cpp
CoreType(t) == IF t = "IOC" THEN "FillAndKill" ELSE "GoodTillCancel"

CallBoth(id, s, t, px, qty) ==
    /\ program = "both"
    /\ call.op = "none"
    /\ id \notin loc.test.used
    /\ qty >= 1
    /\ \E r \in {AddOrder(CoreBook, MakeOrder(CoreType(t), id, s, px, qty))} :
       \E q \in {add(SimBook, SimOrder(id, s, t, px, qty))} :
           /\ size(r.lookup) <= MaxResting
           /\ bids' = r.bids
           /\ asks' = r.asks
           /\ lookup' = r.lookup
           /\ bids_' = q.bids
           /\ asks_' = q.asks
           /\ call' = [op |-> "both", o |-> SimOrder(id, s, t, px, qty),
                       tif |-> t, qty |-> qty, dup |-> r.dup, fault |-> r.fault,
                       trades |-> r.trades, steps |-> r.steps, inc |-> r.inc,
                       pre |-> CoreBook, out |-> q.out, pre_ |-> SimBook]
    /\ loc' = [loc EXCEPT !.test.used = @ \cup {id}]
    /\ UNCHANGED <<program, runFlag, activeIdx, markets, pc, fuel>>

(***************************************************************************)
(* A functional test in the manner of runBasicTests: a fixed list of calls *)
(* made one after the other on a fresh core Orderbook.  The calls are the  *)
(* scenario of the specification (ImmediateOrCancel is FillAndKill here).  *)
(***************************************************************************)
Scenario ==
    << [op |-> "AddOrder", type |-> "GoodTillCancel", id |-> 1, side |-> "Sell",
        px |-> 100, qty |-> 10],
       [op |-> "AddOrder", type |-> "GoodTillCancel", id |-> 2, side |-> "Buy",
        px |-> 100, qty |-> 4],
       [op |-> "AddOrder", type |-> "FillAndKill", id |-> 3, side |-> "Buy",
        px |-> 99, qty |-> 5],
       [op |-> "AddOrder", type |-> "GoodTillCancel", id |-> 4, side |-> "Buy",
        px |-> 101, qty |-> 10],
       [op |-> "CancelOrder", type |-> "GoodTillCancel", id |-> 4, side |-> "Buy",
        px |-> 0, qty |-> 0] >>

\* the next call of the test: `ob.AddOrder(ob.MakeOrder(...))` or
\* `ob.CancelOrder(id)`
ScenarioCall ==
    /\ program = "scenario"
    /\ call.op = "none"
    /\ pc.test <= Len(Scenario)
    /\ \E c \in {Scenario[pc.test]} :
          IF c.op = "AddOrder"
          THEN \E o \in {MakeOrder(c.type, c.id, c.side, c.px, c.qty)} :
               \E r \in {AddOrder(CoreBook, o)} :
                  /\ bids' = r.bids
                  /\ asks' = r.asks
                  /\ lookup' = r.lookup
                  /\ call' = [op |-> "AddOrder", o |-> o,
                              tif |-> IF c.type = "FillAndKill" THEN "IOC" ELSE "GTC",
                              qty |-> c.qty, dup |-> r.dup, fault |-> r.fault,
                              trades |-> r.trades, steps |-> r.steps, inc |-> r.inc,
                              pre |-> CoreBook]
          ELSE \E r \in {CancelOrder(CoreBook, c.id)} :
                  /\ bids' = r.bids
                  /\ asks' = r.asks
                  /\ lookup' = r.lookup
                  /\ call' = [NoCall EXCEPT !.op = "CancelOrder", !.o.id = c.id,
                                            !.pre = CoreBook]
    /\ pc' = [pc EXCEPT !.test = @ + 1]
    /\ UNCHANGED <<program, bids_, asks_, runFlag, activeIdx, markets, loc, fuel>>

(***************************************************************************)
(* The simulator's threads.  pc[t] names the statement thread t executes   *)
(* next: "loop" (the `while (runFlag)` test), "lock" (the lock_guard),     *)
(* "add", "count", "tape" (the three statements of a submitting critical   *)
(* section), "print" (printMarketSnapshot), "summary" (main's final cout), *)
(* "done" (the thread function has returned).                              *)
(***************************************************************************)
Feeds == Workers \ {"tDisp", "tIn"}
Keys  == {"Q", "1", "2", "3", "B", "S", "C"}

Goto(t, l) == pc' = [pc EXCEPT ![t] = l]

\* lock_guard<mutex> g(mk.m) of thread t on the market it works on
Lock(t) ==
    /\ program = "market"
    /\ pc[t] = "lock"
    /\ unlocked(markets[loc[t].sym])
    /\ markets' = [markets EXCEPT ![loc[t].sym].m = t]
    /\ Goto(t, IF t = "tDisp" THEN "print" ELSE IF t = "main" THEN "summary" ELSE "add")
    /\ UNCHANGED <<program, bids, asks, lookup, bids_, asks_, call,
                   runFlag, activeIdx, loc, fuel>>

\* marketSimLoop: `while (runFlag) { Side s = ...; flip = !flip;`
FeedLoop(t) ==
    /\ program = "market"
    /\ t \in Feeds
    /\ pc[t] = "loop"
    /\ IF running(runFlag)
       THEN /\ fuel.feed > 0
            /\ fuel' = [fuel EXCEPT !.feed = @ - 1]
            /\ loc' = [loc EXCEPT ![t].s = IF loc[t].flip THEN "Sell" ELSE "Buy",
                                  ![t].flip = ~loc[t].flip]
            /\ Goto(t, "lock")
       ELSE /\ Goto(t, "done")
            /\ UNCHANGED <<loc, fuel>>
    /\ UNCHANGED <<program, bids, asks, lookup, bids_, asks_, call,
                   runFlag, activeIdx, markets>>

\* marketSimLoop: `trades = mk.book.add({id++, s, OrderType::IOC, px, (Qty)10});`
FeedAdd(t) ==
    /\ program = "market"
    /\ t \in Feeds
    /\ pc[t] = "add"
    /\ \E r \in {add(markets[loc[t].sym].book,
                     SimOrder(loc[t].id, loc[t].s, "IOC",
                              feedPx(loc[t].id, loc[t].skew), 10))} :
          /\ markets' = [markets EXCEPT
                            ![loc[t].sym].book = [bids |-> r.bids, asks |-> r.asks],
                            ![loc[t].sym].returned = @ \o r.out]
          /\ loc' = [loc EXCEPT ![t].trades = r.out, ![t].id = loc[t].id + 1]
    /\ Goto(t, "count")
    /\ UNCHANGED <<program, bids, asks, lookup, bids_, asks_, call,
                   runFlag, activeIdx, fuel>>

\* inputLoop: `while (runFlag) { if (_kbhit()) { char ch = toupper(_getch());`
\* and the dispatch on ch, up to the lock_guard of 'B', 'S' and 'C'.  No key
\* and any other key change nothing.
InputLoop(ch) ==
    /\ program = "market"
    /\ pc["tIn"] = "loop"
    /\ IF ~running(runFlag)
       THEN /\ Goto("tIn", "done")
            /\ UNCHANGED <<runFlag, activeIdx, loc, fuel>>
       ELSE IF ch = "Q"
       THEN /\ runFlag' = FALSE
            /\ Goto("tIn", "done")
            /\ UNCHANGED <<activeIdx, loc, fuel>>
       ELSE /\ fuel.keys > 0
            /\ fuel' = [fuel EXCEPT !.keys = @ - 1]
            /\ IF ch \in {"1", "2", "3"}
               THEN /\ activeIdx' = (CASE ch = "1" -> 0 [] ch = "2" -> 1 [] OTHER -> 2)
                    /\ UNCHANGED <<pc, loc>>
               ELSE /\ loc' = [loc EXCEPT !["tIn"].sym = activeSymbol(activeIdx),
                                          !["tIn"].ch = ch]
                    /\ Goto("tIn", "lock")
                    /\ UNCHANGED activeIdx
            /\ UNCHANGED runFlag
    /\ UNCHANGED <<program, bids, asks, lookup, bids_, asks_, call, markets>>

\* inputLoop: the order of 'B', 'S' or 'C', made under the lock
InputAdd ==
    /\ program = "market"
    /\ pc["tIn"] = "add"
    /\ LET me  == loc["tIn"]
           bk  == markets[me.sym].book
           a   == bestAsk(bk.asks)
           b   == bestBid(bk.bids)
           o   == CASE me.ch = "B" ->
                         SimOrder(me.id + 1, "Buy", "GTC",
                                  IF a # 0 THEN a - 2 ELSE 99, 10)
                    [] me.ch = "S" ->
                         SimOrder(me.id + 1, "Sell", "GTC",
                                  IF b # 0 THEN b + 5 ELSE 110, 10)
                    [] OTHER ->
                         SimOrder(me.id + 1, "Buy", "IOC", a, 1)
       IN  IF me.ch = "C" /\ a = 0
           THEN UNCHANGED <<markets, loc>>
           ELSE \E r \in {add(bk, o)} :
                  /\ markets' = [markets EXCEPT
                                    ![me.sym].book = [bids |-> r.bids, asks |-> r.asks],
                                    ![me.sym].returned = @ \o r.out]
                  /\ loc' = [loc EXCEPT
                                !["tIn"].id = me.id + 1,
                                !["tIn"].trades =
                                    IF me.ch = "C" THEN r.out
                                    ELSE setAggressor(r.out, o.side)]
    /\ Goto("tIn", "count")
    /\ UNCHANGED <<program, bids, asks, lookup, bids_, asks_, call,
                   runFlag, activeIdx, fuel>>

\* `mk.tradeCount += trades.size();`
CountTrades(t) ==
    /\ program = "market"
    /\ t \in Feeds \cup {"tIn"}
    /\ pc[t] = "count"
    /\ markets' = [markets EXCEPT
                      ![loc[t].sym].tradeCount = @ + Len(loc[t].trades)]
    /\ Goto(t, "tape")
    /\ UNCHANGED <<program, bids, asks, lookup, bids_, asks_, call,
                   runFlag, activeIdx, loc, fuel>>

\* `addTradesToTapeLocked(mk, trades);`, then the end of the block: the
\* lock_guard unlocks, the iteration's locals die, the thread sleeps
TapeTrades(t) ==
    /\ program = "market"
    /\ t \in Feeds \cup {"tIn"}
    /\ pc[t] = "tape"
    /\ markets' = [markets EXCEPT
                      ![loc[t].sym].tape = addTradesToTapeLocked(@, loc[t].trades),
                      ![loc[t].sym].m = unlock(@)]
    /\ loc' = [loc EXCEPT ![t].trades = <<>>, ![t].ch = "", ![t].s = "Buy",
                          ![t].sym = Locals[t].sym]
    /\ Goto(t, "loop")
    /\ UNCHANGED <<program, bids, asks, lookup, bids_, asks_, call,
                   runFlag, activeIdx, fuel>>

\* displayLoop: `while (runFlag) { string sym = sm.activeSymbol();`
DisplayLoop ==
    /\ program = "market"
    /\ pc["tDisp"] = "loop"
    /\ IF running(runFlag)
       THEN /\ loc' = [loc EXCEPT !["tDisp"].sym = activeSymbol(activeIdx)]
            /\ Goto("tDisp", "lock")
       ELSE /\ Goto("tDisp", "done")
            /\ UNCHANGED loc
    /\ UNCHANGED <<program, bids, asks, lookup, bids_, asks_, call,
                   runFlag, activeIdx, markets, fuel>>

\* displayLoop: `printMarketSnapshot(sym, mk);` (the book queries and every
\* cout of the snapshot), then the end of the block unlocks and sym dies
Snapshot ==
    /\ program = "market"
    /\ pc["tDisp"] = "print"
    /\ markets' = [markets EXCEPT ![loc["tDisp"].sym].m = unlock(@)]
    /\ loc' = [loc EXCEPT !["tDisp"].sym = Locals["tDisp"].sym]
    /\ Goto("tDisp", "loop")
    /\ UNCHANGED <<program, bids, asks, lookup, bids_, asks_, call,
                   runFlag, activeIdx, fuel>>

\* main: `tIn.join(); runFlag = false;`, `for (auto& th : sims) th.join();`,
\* `tDisp.join();` and the head of the summary loop
Join ==
    /\ program = "market"
    /\ \/ /\ pc["main"] = "joinIn"
          /\ pc["tIn"] = "done"
          /\ runFlag' = FALSE
          /\ Goto("main", "joinSims")
          /\ UNCHANGED loc
       \/ /\ pc["main"] = "joinSims"
          /\ \A t \in Feeds : pc[t] = "done"
          /\ Goto("main", "joinDisp")
          /\ UNCHANGED <<runFlag, loc>>
       \/ /\ pc["main"] = "joinDisp"
          /\ pc["tDisp"] = "done"
          /\ loc' = [loc EXCEPT !["main"].id = 0, !["main"].sym = symbols[1]]
          /\ Goto("main", "lock")
          /\ UNCHANGED runFlag
    /\ UNCHANGED <<program, bids, asks, lookup, bids_, asks_, call,
                   activeIdx, markets, fuel>>

\* main: one iteration of the final summary: the cout of the market's
\* figures under its lock_guard, the unlock at the end of the block, ++i
Summary ==
    /\ program = "market"
    /\ pc["main"] = "summary"
    /\ markets' = [markets EXCEPT ![loc["main"].sym].m = unlock(@)]
    /\ IF loc["main"].id + 1 < Len(symbols)
       THEN /\ loc' = [loc EXCEPT !["main"].id = @ + 1,
                                  !["main"].sym = symbols[loc["main"].id + 2]]
            /\ Goto("main", "lock")
       ELSE /\ loc' = [loc EXCEPT !["main"].id = @ + 1]
            /\ Goto("main", "done")
    /\ UNCHANGED <<program, bids, asks, lookup, bids_, asks_, call,
                   runFlag, activeIdx, fuel>>

(***************************************************************************)
(* A SymbolManager used alone: its selector is a public atomic<int>.       *)
(***************************************************************************)
SelectorValues == (0 - MaxSel)..MaxSel

\* sm.activeIdx.store(v)
Store(v) ==
    /\ program = "registry"
    /\ call.op = "none"
    /\ activeIdx' = v
    /\ UNCHANGED <<program, bids, asks, lookup, bids_, asks_, call,
                   runFlag, markets, pc, loc, fuel>>

\* sm.activeMarket(): `*markets[activeSymbol()]`
CallActiveMarket ==
    /\ program = "registry"
    /\ call.op = "none"
    /\ call' = [op |-> "activeMarket", o |-> NoOrder, tif |-> "GTC", qty |-> 0,
                dup |-> FALSE, fault |-> FALSE, trades |-> <<>>, steps |-> <<>>,
                inc |-> NoOrder, pre |-> NoCall.pre,
                idx |-> activeIdx,
                i   |-> clamp(activeIdx, Len(symbols)),
                sym |-> activeSymbol(activeIdx)]
    /\ UNCHANGED <<program, bids, asks, lookup, bids_, asks_>>
    /\ UNCHANGED marketVars

MarketNext ==
    \/ \E t \in Threads : Lock(t)
    \/ \E t \in Feeds : FeedLoop(t)
    \/ \E t \in Feeds : FeedAdd(t)
    \/ \E ch \in Keys : InputLoop(ch)
    \/ InputAdd
    \/ \E t \in Feeds \cup {"tIn"} : CountTrades(t)
    \/ \E t \in Feeds \cup {"tIn"} : TapeTrades(t)
    \/ DisplayLoop
    \/ Snapshot
    \/ Join
    \/ Summary

Next ==
    \/ \E t \in CoreTypes, id \in Ids, s \in Sides, px \in Prices, qty \in Qtys :
          CallAddOrder(t, id, s, px, qty)
    \/ \E id \in Ids : CallCancelOrder(id)
    \/ \E id \in Ids, s \in Sides, px \in Prices, qty \in Qtys :
          CallAddThenCancel(id, s, px, qty)
    \/ \E id \in Ids, s \in Sides, t \in SimTypes, px \in Prices, qty \in Qtys :
          CallAdd(id, s, t, px, qty)
    \/ Return
    \/ \E v \in SelectorValues : Store(v)
    \/ CallActiveMarket
    \/ ScenarioCall
    \/ \E id \in Ids, s \in Sides, t \in SimTypes, px \in Prices, qty \in Qtys :
          CallBoth(id, s, t, px, qty)
    \/ MarketNext

Spec == Init /\ [][Next]_vars

(***************************************************************************)
(* The simulator alone under a fair scheduler: every thread that can take  *)
(* a step eventually takes one.  Keys are pressed or not as the user       *)
(* likes; a thread blocked in a lock_guard gets the mutex once it stays    *)
(* free.                                                                   *)
(***************************************************************************)
ThreadStep(t) ==
    \/ Lock(t)
    \/ FeedLoop(t)
    \/ FeedAdd(t)
    \/ (t = "tIn" /\ InputAdd)
    \/ CountTrades(t)
    \/ TapeTrades(t)
    \/ (t = "tDisp" /\ (DisplayLoop \/ Snapshot))
    \/ (t = "main" /\ (Join \/ Summary))

LiveInit == Boot({"market"}, LiveFeed)

LiveSpec == LiveInit /\ [][MarketNext]_vars /\ \A t \in Threads : WF_vars(ThreadStep(t))

(***************************************************************************)
(* The simulator under a scheduler that is also fair to the threads        *)
(* blocked in a lock_guard: every loop sleeps after it has released the    *)
(* guard (sleep_for of 500, 40 and 25+ ms), so a thread that finds the     *)
(* mutex free again and again is woken and takes it.                       *)
(***************************************************************************)
FairInit == Boot({"market"}, FairFeed)

FairSpec == FairInit /\ [][MarketNext]_vars
                     /\ \A t \in Threads : WF_vars(ThreadStep(t)) /\ SF_vars(Lock(t))

(***************************************************************************)
(* Vocabulary of the properties.                                           *)
(***************************************************************************)
\* the running program drives the engine of orderBook_core.cpp
OnCore == program \in {"core", "scenario"}

\* the book of the running program
Book == IF OnCore THEN CoreBook ELSE SimBook

\* a Submit (AddOrder / add) has just returned
Submitted == call.op \in {"AddOrder", "add"}

\* remaining quantity of an order of either engine
Rem(x) == IF "remaining" \in DOMAIN x THEN x.remaining ELSE x.rem

SideOf(b, s) == IF s = "Buy" THEN b.bids ELSE b.asks
Level(m, px) == IF px \in DOMAIN m THEN m[px] ELSE <<>>
IdsOf(q)     == [i \in 1..Len(q) |-> q[i].id]

\* the orders resting in the book b
Resting(b) == UNION {{b.bids[p][i] : i \in 1..Len(b.bids[p])} : p \in DOMAIN b.bids}
              \cup
              UNION {{b.asks[p][i] : i \in 1..Len(b.asks[p])} : p \in DOMAIN b.asks}
IdIn(b, id) == \E x \in Resting(b) : x.id = id

\* no bid level at or above an ask level
Uncrossed(bs, as) == \A b \in DOMAIN bs, a \in DOMAIN as : b < a

\* the resting order a matching step hit: its id, limit price and level
RestId(st)  == IF call.o.side = "Buy" THEN st.askId ELSE st.bidId
RestPx(st)  == IF call.o.side = "Buy" THEN st.askPx ELSE st.bidPx
RestLvl(st) == Level(IF call.o.side = "Buy" THEN st.asks ELSE st.bids, RestPx(st))

\* quantity and ids of a returned trade, and the price(s) it records
TradeQtys(t)   == IF OnCore THEN {t.bid.qty, t.ask.qty} ELSE {t.qty}
TradePrices(t) == IF OnCore THEN {t.bid.price, t.ask.price} ELSE {t.px}
TradeBidId(t)  == IF OnCore THEN t.bid.orderId ELSE t.bidId
TradeAskId(t)  == IF OnCore THEN t.ask.orderId ELSE t.askId
\* the price recorded for the resting leg
TradeRestPx(t) == IF ~OnCore THEN t.px
                  ELSE IF call.o.side = "Buy" THEN t.ask.price ELSE t.bid.price

RECURSIVE SumSteps(_)
SumSteps(ss) == IF ss = <<>> THEN 0 ELSE Head(ss).q + SumSteps(Tail(ss))

\* the incoming order cannot trade: the other side is empty or out of reach
NonCrossable(o, b) ==
    IF o.side = "Buy" THEN \A a \in DOMAIN b.asks : o.px < a
                      ELSE \A p \in DOMAIN b.bids : o.px > p

(***************************************************************************)
(* C1  Uncrossed book: in every state between calls, one side is empty or  *)
(* the best bid is strictly below the best ask.                            *)
(***************************************************************************)
C1_UncrossedBook == Uncrossed(bids, asks) /\ Uncrossed(bids_, asks_)

\* a Submit has traded and left orders on both sides
C1_Witness ==
    /\ Submitted /\ call.trades # <<>>
    /\ DOMAIN Book.bids # {} /\ DOMAIN Book.asks # {}

(***************************************************************************)
(* C2  Time priority: a trade is made against a resting order only when    *)
(* every order ahead of it in its level has no quantity left; a Submit     *)
(* only removes orders from the front of a level and puts the incoming     *)
(* order at the back; a Cancel removes its order and keeps the order of    *)
(* the others.  So an order submitted earlier at a price is matched first. *)
(***************************************************************************)
C2_InTurn(st) ==
    \E k \in 1..Len(RestLvl(st)) :
        /\ RestLvl(st)[k].id = RestId(st)
        /\ \A j \in 1..(k - 1) : Rem(RestLvl(st)[j]) = 0

C2_Fifo(after, before, mayAdd) ==
    \E k \in 0..Len(before) :
        LET kept == IdsOf(SubSeq(before, k + 1, Len(before)))
        IN  \/ IdsOf(after) = kept
            \/ mayAdd /\ IdsOf(after) = Append(kept, call.o.id)

C2_TimePriority ==
    /\ Submitted =>
         /\ \A i \in 1..Len(call.steps) : C2_InTurn(call.steps[i])
         /\ \A s \in Sides : \A px \in DOMAIN SideOf(Book, s) :
               C2_Fifo(SideOf(Book, s)[px], Level(SideOf(call.pre, s), px),
                       s = call.o.side /\ px = call.o.px)
    /\ call.op = "CancelOrder" =>
         \A s \in Sides : \A px \in DOMAIN SideOf(Book, s) :
            IdsOf(SideOf(Book, s)[px]) =
               IdsOf(SelectSeq(Level(SideOf(call.pre, s), px),
                               LAMBDA x : x.id # call.o.id))

\* a trade was made while two orders with quantity left rested at the price
C2_Witness ==
    /\ Submitted /\ call.steps # <<>>
    /\ Len(RestLvl(call.steps[1])) >= 2
    /\ Rem(RestLvl(call.steps[1])[1]) > 0
    /\ Rem(RestLvl(call.steps[1])[2]) > 0

(***************************************************************************)
(* C3  Price priority and trade order: the returned trades are the matches *)
(* in the order they were made; each hits the best opposite level of the   *)
(* book at that moment; the resting prices never improve along the         *)
(* sequence (non-decreasing for a Buy, non-increasing for a Sell).         *)
(***************************************************************************)
C3_PricePriority ==
    Submitted =>
      /\ Len(call.trades) = Len(call.steps)
      /\ \A i \in 1..Len(call.steps) :
            LET st == call.steps[i]
                t  == call.trades[i]
            IN  /\ TradeBidId(t) = st.bidId /\ TradeAskId(t) = st.askId
                /\ TradeQtys(t) = {st.q}
                /\ TradeRestPx(t) = RestPx(st)
                /\ IF call.o.side = "Buy"
                   THEN \A p \in DOMAIN st.asks : RestPx(st) <= p
                   ELSE \A p \in DOMAIN st.bids : RestPx(st) >= p
      /\ \A i \in 1..(Len(call.trades) - 1) :
            IF call.o.side = "Buy"
            THEN TradeRestPx(call.trades[i]) <= TradeRestPx(call.trades[i + 1])
            ELSE TradeRestPx(call.trades[i]) >= TradeRestPx(call.trades[i + 1])

\* one Submit traded at two different resting prices
C3_Witness ==
    /\ Submitted /\ Len(call.trades) >= 2
    /\ TradeRestPx(call.trades[1]) # TradeRestPx(call.trades[2])

(***************************************************************************)
(* C4  No crossed trades: at every match the bid leg's limit price is at   *)
(* least the ask leg's limit price; the aggressor's limit reaches the      *)
(* resting order's price.                                                  *)
(***************************************************************************)
C4_NoCrossedTrades ==
    Submitted =>
      \A i \in 1..Len(call.steps) :
         /\ call.steps[i].bidPx >= call.steps[i].askPx
         /\ IF call.o.side = "Buy" THEN call.o.px >= RestPx(call.steps[i])
                                   ELSE call.o.px <= RestPx(call.steps[i])

\* a trade whose aggressor was priced through the resting order
C4_Witness ==
    /\ Submitted
    /\ \E i \in 1..Len(call.steps) : call.steps[i].bidPx > call.steps[i].askPx

(***************************************************************************)
(* C5  Trade price is the resting price: every price recorded in a         *)
(* returned trade equals the limit price of the resting order hit.         *)
(***************************************************************************)
C5_TradePriceIsRestingPrice ==
    Submitted =>
      \A i \in 1..Len(call.trades) :
         TradePrices(call.trades[i]) = {RestPx(call.steps[i])}

(***************************************************************************)
(* C6  Quantity conservation: every resting order has                      *)
(* 0 <= remaining <= initial and the trades made against it sum to         *)
(* initial - remaining; every match takes at most the remaining quantity   *)
(* of both orders, so fill never throws; the trades of a Submit sum to     *)
(* what the incoming order lost.                                           *)
(***************************************************************************)
C6_QuantityConservation ==
    /\ \A x \in Resting(Book) :
          /\ 0 <= Rem(x) /\ Rem(x) <= x.initial
          /\ x.traded = x.initial - Rem(x)
    /\ ~call.fault
    /\ Submitted =>
          /\ \A i \in 1..Len(call.steps) :
                /\ call.steps[i].q <= call.steps[i].bidRem
                /\ call.steps[i].q <= call.steps[i].askRem
                /\ TradeQtys(call.trades[i]) = {call.steps[i].q}
          /\ 0 <= Rem(call.inc) /\ Rem(call.inc) <= call.qty
          /\ SumSteps(call.steps) = call.qty - Rem(call.inc)
          /\ call.inc.traded = SumSteps(call.steps)

\* a Submit traded and an order rests partly filled
C6_Witness ==
    /\ Submitted /\ call.trades # <<>>
    /\ \E x \in Resting(Book) : 0 < Rem(x) /\ Rem(x) < x.initial

(***************************************************************************)
(* C7  Positive trade quantity: every trade returned by a Submit has       *)
(* quantity > 0, whatever quantity (any uint32, 0 included) was submitted. *)
(***************************************************************************)
C7_PositiveTradeQuantity ==
    Submitted =>
      \A i \in 1..Len(call.trades) : \A q \in TradeQtys(call.trades[i]) : q > 0

(***************************************************************************)
(* C8  IOC never rests: after the Submit of an ImmediateOrCancel /         *)
(* FillAndKill order with a fresh id returns, the order is in no level and *)
(* not in the index, and the resting count has not grown.                  *)
(***************************************************************************)
C8_IocNeverRests ==
    (Submitted /\ call.tif = "IOC" /\ ~IdIn(call.pre, call.o.id)
               /\ call.o.id \notin DOMAIN call.pre.lookup) =>
      /\ ~IdIn(Book, call.o.id)
      /\ call.o.id \notin DOMAIN Book.lookup
      /\ Cardinality(DOMAIN Book.lookup) <= Cardinality(DOMAIN call.pre.lookup)
      /\ restingOrders(Book.bids, Book.asks) <=
            restingOrders(call.pre.bids, call.pre.asks)

(***************************************************************************)
(* C9  Non-crossable IOC is a pure no-op: an ImmediateOrCancel order that  *)
(* cannot trade returns no trades and leaves levels, FIFO order, remaining *)
(* quantities and index exactly as they were.                              *)
(***************************************************************************)
C9_NonCrossableIocNoOp ==
    (Submitted /\ call.tif = "IOC" /\ NonCrossable(call.o, call.pre)) =>
      /\ call.trades = <<>>
      /\ Book = call.pre

(***************************************************************************)
(* C10 GTC remainder rests at the back: a GoodTillCancel order with a      *)
(* fresh id that ends crossing with r > 0 left is the last order of the    *)
(* level at its price on its side, with remaining r = initial - traded,    *)
(* and is indexed; with r = 0 it is in no level and not in the index.      *)
(***************************************************************************)
C10_GtcRemainderRests ==
    (Submitted /\ call.tif = "GTC" /\ ~IdIn(call.pre, call.o.id)
               /\ call.o.id \notin DOMAIN call.pre.lookup) =>
      LET r   == Rem(call.inc)
          lvl == Level(SideOf(Book, call.o.side), call.o.px)
      IN  IF r > 0
          THEN /\ lvl # <<>>
               /\ lvl[Len(lvl)].id = call.o.id
               /\ Rem(lvl[Len(lvl)]) = r
               /\ r = call.qty - SumSteps(call.steps)
               /\ OnCore => call.o.id \in DOMAIN lookup
          ELSE /\ ~IdIn(Book, call.o.id)
               /\ call.o.id \notin DOMAIN Book.lookup

(***************************************************************************)
(* C11 Duplicate id on Submit is a silent no-op: a Submit whose id is the   *)
(* id of an order resting in the book returns no trades and leaves the     *)
(* book and the index as they were, whatever its side, type, price and     *)
(* quantity.                                                               *)
(***************************************************************************)
C11_DuplicateIdNoOp ==
    (Submitted /\ IdIn(call.pre, call.o.id)) =>
      /\ call.trades = <<>>
      /\ Book = call.pre

(***************************************************************************)
(* C12 Cancel is idempotent and ignores unknown ids: CancelOrder(id) on an *)
(* id that is not in the index changes nothing and raises nothing, and a   *)
(* second CancelOrder(id) right after a first leaves the book the first    *)
(* left.                                                                   *)
(***************************************************************************)
C12_CancelIdempotent ==
    call.op = "CancelOrder" =>
      /\ call.o.id \notin DOMAIN call.pre.lookup =>
            (Book = call.pre /\ ~call.fault)
      /\ CancelOrder(Book, call.o.id) = Book

\* CancelOrder of an id that is unknown, on a book that holds orders
C12_Witness ==
    /\ call.op = "CancelOrder"
    /\ call.o.id \notin DOMAIN call.pre.lookup
    /\ DOMAIN call.pre.lookup # {}

(***************************************************************************)
(* C13 Cancel correctness: CancelOrder(id) on a resting id lowers size()   *)
(* by exactly 1, produces no trades, removes that order alone from its     *)
(* level and from the index and leaves every other resting order where it  *)
(* was, with the quantity it had; afterwards the id is unknown: another    *)
(* CancelOrder(id) is a no-op and a Submit with that id is not dropped as  *)
(* a duplicate.                                                            *)
(***************************************************************************)
C13_CancelCorrectness ==
    (call.op = "CancelOrder" /\ call.o.id \in DOMAIN call.pre.lookup) =>
      /\ size(lookup) = size(call.pre.lookup) - 1
      /\ restingOrders(bids, asks) =
            restingOrders(call.pre.bids, call.pre.asks) - 1
      /\ call.trades = <<>>
      /\ call.o.id \notin DOMAIN lookup
      /\ ~IdIn(CoreBook, call.o.id)
      /\ lookup = MapErase(call.pre.lookup, call.o.id)
      /\ \A s \in Sides :
            \A px \in DOMAIN SideOf(call.pre, s) \cup DOMAIN SideOf(CoreBook, s) :
               Level(SideOf(CoreBook, s), px) =
                  SelectSeq(Level(SideOf(call.pre, s), px),
                            LAMBDA x : x.id # call.o.id)
      /\ CancelOrder(CoreBook, call.o.id) = CoreBook
      /\ \A t \in CoreTypes, s \in Sides, px \in Prices, qty \in Qtys :
            ~AddOrder(CoreBook, MakeOrder(t, call.o.id, s, px, qty)).dup

\* a partly filled order was cancelled from a level it shared with another
C13_Witness ==
    /\ call.op = "CancelOrder"
    /\ \E s \in Sides : \E px \in DOMAIN SideOf(call.pre, s) :
          LET lvl == SideOf(call.pre, s)[px]
          IN  /\ Len(lvl) = 2
              /\ lvl[1].id = call.o.id
              /\ 0 < lvl[1].remaining /\ lvl[1].remaining < lvl[1].initial

(***************************************************************************)
(* C14 Index/level consistency (the engine that keeps an index): between   *)
(* calls every indexed id occurs exactly once in the levels, on the side   *)
(* and at the price recorded in the order; every order in a level is       *)
(* indexed; size() equals the number of orders in all levels.              *)
(***************************************************************************)
C14_Places(id) ==
    UNION {UNION {{<<s, px, i>> : i \in {j \in 1..Len(SideOf(CoreBook, s)[px]) :
                                          SideOf(CoreBook, s)[px][j].id = id}}
                  : px \in DOMAIN SideOf(CoreBook, s)}
           : s \in Sides}

C14_IndexLevelConsistency ==
    OnCore =>
      /\ \A id \in DOMAIN lookup :
            /\ Cardinality(C14_Places(id)) = 1
            /\ \A pl \in C14_Places(id) :
                  LET x == SideOf(CoreBook, pl[1])[pl[2]][pl[3]]
                  IN  /\ x.side = pl[1] /\ x.px = pl[2]
                      /\ lookup[id] = [side |-> pl[1], px |-> pl[2]]
      /\ \A x \in Resting(CoreBook) : x.id \in DOMAIN lookup
      /\ size(lookup) = restingOrders(bids, asks)

\* a Submit has traded and left two orders resting and indexed
C14_Witness ==
    /\ program = "core" /\ call.op = "AddOrder" /\ call.trades # <<>>
    /\ size(lookup) = 2

(***************************************************************************)
(* C15 No empty price level: between calls every level present on either   *)
(* side holds at least one order; the call that fills or cancels the last  *)
(* order of a level removes the level.                                     *)
(***************************************************************************)
C15_NoEmptyLevel ==
    /\ \A s \in Sides : \A px \in DOMAIN SideOf(Book, s) : SideOf(Book, s)[px] # <<>>
    /\ \A sym \in DOMAIN markets : \A s \in Sides :
          \A px \in DOMAIN SideOf(markets[sym].book, s) :
             SideOf(markets[sym].book, s)[px] # <<>>

\* a call has just removed a level that held one order
C15_Witness ==
    /\ call.op # "none"
    /\ \E s \in Sides : \E px \in DOMAIN SideOf(call.pre, s) :
          /\ Len(SideOf(call.pre, s)[px]) = 1
          /\ px \notin DOMAIN SideOf(Book, s)

(***************************************************************************)
(* C16 Bounded tape: whenever a Market's guard is not held, its tape holds *)
(* at most MAX_TAPE = 12 entries, however many trades one Submit returned. *)
(***************************************************************************)
C16_BoundedTape ==
    \A sym \in DOMAIN markets :
        markets[sym].m = "" => Len(markets[sym].tape) <= MAX_TAPE

\* a full tape of a Market that has traded more than MAX_TAPE times
C16_Witness ==
    \E sym \in DOMAIN markets :
        /\ markets[sym].m = ""
        /\ Len(markets[sym].tape) = MAX_TAPE
        /\ markets[sym].tradeCount > MAX_TAPE

(***************************************************************************)
(* C17 Mutual exclusion per Market: at most one thread is inside a         *)
(* critical section of a Market, and a thread that is at a statement       *)
(* reading or writing a Market's book, tape or counter holds that Market's *)
(* guard.                                                                  *)
(***************************************************************************)
\* thread t is at a statement that reads or writes the Market loc[t].sym
InCritical(t) == pc[t] \in {"add", "count", "tape", "print", "summary"}

C17_MutualExclusion ==
    program = "market" =>
      /\ \A t \in Threads : InCritical(t) => markets[loc[t].sym].m = t
      /\ \A t, u \in Threads :
            (t # u /\ InCritical(t) /\ InCritical(u)) => loc[t].sym # loc[u].sym

\* a thread is inside a critical section of a Market another thread waits for
C17_Witness ==
    /\ program = "market"
    /\ \E t, u \in Threads :
          /\ InCritical(t)
          /\ pc[u] = "lock"
          /\ loc[u].sym = loc[t].sym

(***************************************************************************)
(* C18 Guard never held across I/O or rendering: no thread writes to the   *)
(* console or renders a snapshot while it holds a Market's guard.          *)
(***************************************************************************)
C18_NoOutputUnderGuard ==
    program = "market" =>
      \A t \in Threads :
         pc[t] \in {"print", "summary"} => markets[loc[t].sym].m # t

(***************************************************************************)
(* C19 Cooperative shutdown: under fair scheduling, once runFlag is false  *)
(* every worker loop eventually exits and main's joins complete; a worker  *)
(* exits only from the test at the head of its loop, so a Submit in        *)
(* progress runs to the end of its critical section; no thread that has    *)
(* exited holds a guard.                                                   *)
(***************************************************************************)
C19_CooperativeShutdown ==
    /\ (~runFlag) ~> (/\ \A t \in Workers : pc[t] = "done"
                      /\ pc["main"] \in {"lock", "summary", "done"})
    /\ [][\A t \in Workers :
             (pc[t] # "done" /\ pc'[t] = "done") => pc[t] = "loop"]_vars
    /\ [](\A t \in Threads : \A sym \in DOMAIN markets :
             pc[t] = "done" => markets[sym].m # t)

\* every thread has returned after a run in which trades were made
C19_Witness ==
    /\ ~runFlag
    /\ \A t \in Threads : pc[t] = "done"
    /\ \E sym \in DOMAIN markets : markets[sym].tradeCount > 0

(***************************************************************************)
(* C20 The active-symbol selector always resolves: for every integer       *)
(* stored in the selector, negative or beyond the last symbol included,    *)
(* activeSymbol/activeMarket index the symbol list inside its bounds, at   *)
(* the selector clamped into [0, number of symbols - 1], and yield a       *)
(* registered Market.                                                      *)
(***************************************************************************)
C20_SelectorClamped ==
    call.op = "activeMarket" =>
      /\ call.i \in 0..(Len(symbols) - 1)
      /\ call.sym = symbols[IF call.idx < 0 THEN 1
                            ELSE IF call.idx >= Len(symbols) THEN Len(symbols)
                            ELSE call.idx + 1]
      /\ call.sym \in DOMAIN markets

\* activeMarket() was called with a negative selector
C20_Witness ==
    /\ call.op = "activeMarket"
    /\ call.idx < 0

(***************************************************************************)
(* C21 Scenario of the specification, from an empty book:                  *)
(*   Sell GTC(1, 100, 10) -> 0 trades, resting 1;                          *)
(*   Buy GTC(2, 100, 4)   -> 1 trade (qty 4, price 100), resting 1, order  *)
(*                           1 has 6 left;                                 *)
(*   Buy IOC(3, 99, 5)    -> 0 trades, resting 1;                          *)
(*   Buy GTC(4, 101, 10)  -> 1 trade (qty 6, price 100) filling order 1,   *)
(*                           order 4 rests with 4 left, resting 1;         *)
(*   Cancel(4)            -> resting 0.                                    *)
(***************************************************************************)
\* the one trade of the call that has just returned: its quantity and the
\* prices it records
C21_OneTrade(q, px) ==
    /\ Len(call.trades) = 1
    /\ TradeQtys(call.trades[1]) = {q}
    /\ TradePrices(call.trades[1]) = {px}

\* the only resting order is id, on side s at px, with rem left
C21_Only(s, px, id, rem) ==
    /\ DOMAIN SideOf(CoreBook, s) = {px}
    /\ DOMAIN SideOf(CoreBook, IF s = "Buy" THEN "Sell" ELSE "Buy") = {}
    /\ Len(SideOf(CoreBook, s)[px]) = 1
    /\ SideOf(CoreBook, s)[px][1].id = id
    /\ SideOf(CoreBook, s)[px][1].remaining = rem

C21_SpecScenario ==
    program = "scenario" =>
      /\ size(lookup) = <<0, 1, 1, 1, 1, 0>>[pc.test]
      /\ restingOrders(bids, asks) = size(lookup)
      /\ call.op # "none" =>
            CASE pc.test = 2 -> call.trades = <<>> /\ C21_Only("Sell", 100, 1, 10)
              [] pc.test = 3 -> C21_OneTrade(4, 100) /\ C21_Only("Sell", 100, 1, 6)
              [] pc.test = 4 -> call.trades = <<>> /\ C21_Only("Sell", 100, 1, 6)
              [] pc.test = 5 -> /\ C21_OneTrade(6, 100)
                                /\ TradeAskId(call.trades[1]) = 1
                                /\ call.steps[1].askRem = 6
                                /\ C21_Only("Buy", 101, 4, 4)
              [] OTHER       -> call.trades = <<>>

(***************************************************************************)
(* C22 Tape and counter track the book: whenever a Market's guard is not   *)
(* held, tradeCount is the number of trades its book has returned so far   *)
(* and the tape is the most recent min(MAX_TAPE, tradeCount) of them,      *)
(* newest first.                                                           *)
(***************************************************************************)
C22_TapeTracksBook ==
    \A sym \in DOMAIN markets :
        markets[sym].m = "" =>
          LET h == markets[sym].returned
              n == Len(h)
          IN  /\ markets[sym].tradeCount = n
              /\ markets[sym].tape = [i \in 1..min(MAX_TAPE, n) |-> h[n + 1 - i]]

\* trades of several Submits on a tape that has evicted older ones
C22_Witness ==
    \E sym \in DOMAIN markets :
        LET h == markets[sym].returned
        IN  /\ markets[sym].m = ""
            /\ Len(h) > MAX_TAPE
            /\ markets[sym].tape[1] = h[Len(h)]
            /\ markets[sym].tape[MAX_TAPE] = h[Len(h) + 1 - MAX_TAPE]

(***************************************************************************)
(* C23 No nested locking, no deadlock: no thread holds the guards of two   *)
(* Markets or asks for a guard while it holds one; a guard that is waited  *)
(* for is held by a thread inside a critical section, and every critical   *)
(* section releases its guard; some thread can take a step until all have  *)
(* returned; under fair scheduling every thread waiting for a guard        *)
(* acquires it (no thread holds a guard for ever, none waits for ever).    *)
(***************************************************************************)
\* the Markets whose guard thread t holds
C23_Holds(t) == {sym \in DOMAIN markets : markets[sym].m = t}

C24_AddCancelRoundTrip ==
    (/\ call.op = "AddCancel"
     /\ call.o.type = "GoodTillCancel"
     /\ call.o.id \notin DOMAIN call.pre.lookup
     /\ NonCrossable(call.o, call.pre)) =>
      /\ call.trades = <<>>
      /\ size(call.mid.lookup) = size(call.pre.lookup) + 1
      /\ CoreBook = call.pre
      /\ size(lookup) = size(call.pre.lookup)

\* the order joined a level behind a partly filled order, bids on the other
\* side, and was cancelled
C24_Witness ==
    /\ call.op = "AddCancel"
    /\ call.o.id \notin DOMAIN call.pre.lookup
    /\ NonCrossable(call.o, call.pre)
    /\ call.o.side = "Sell"
    /\ DOMAIN call.pre.bids # {}
    /\ call.o.px \in DOMAIN call.pre.asks
    /\ Len(call.mid.asks[call.o.px]) = 2
    /\ call.mid.asks[call.o.px][1].remaining < call.mid.asks[call.o.px][1].initial

(***************************************************************************)
(* C25 The two matchers agree: fed the same submissions from empty books,  *)
(* with ids never used before and quantities of at least 1, AddOrder and   *)
(* add return, for every submission, the same sequence of (bid id, ask id, *)
(* quantity) trades and leave the same book: levels, FIFO order and        *)
(* remaining quantities.                                                   *)
(***************************************************************************)
\* a level as the sequence of (id, remaining) of its orders
C25_LevelView(q) == [i \in 1..Len(q) |-> <<q[i].id, Rem(q[i])>>]

\* a book as its levels on each side
C25_BookView(b) ==
    [s \in Sides |-> [p \in DOMAIN SideOf(b, s) |-> C25_LevelView(SideOf(b, s)[p])]]

C25_MatchersAgree ==
    program = "both" =>
      /\ C25_BookView(CoreBook) = C25_BookView(SimBook)
      /\ call.op = "both" =>
            /\ ~call.dup /\ ~call.fault
            /\ [i \in 1..Len(call.trades) |->
                   <<call.trades[i].bid.orderId, call.trades[i].ask.orderId,
                     call.trades[i].bid.qty, call.trades[i].ask.qty>>]
               = [i \in 1..Len(call.out) |->
                   <<call.out[i].bidId, call.out[i].askId,
                     call.out[i].qty, call.out[i].qty>>]

\* a submission traded with two resting orders and left one partly filled
C25_Witness ==
    /\ call.op = "both"
    /\ Len(call.trades) = 2 /\ Len(call.out) = 2
    /\ \E x \in Resting(SimBook) : 0 < x.rem /\ x.rem < x.initial

====
